---- MODULE Spec2Model ----
(***************************************************************************)
(* Model of the travel-agent front end: the four React components          *)
(* ChatInput, HealthCheck, AdditionalInfo and FinalResponse, their local   *)
(* state (useState cells), their event handlers and the continuations of   *)
(* their asynchronous requests.                                            *)
(*                                                                         *)
(* A JavaScript string is a sequence of tokens (single characters, or      *)
(* chunks of characters that are never split, such as a tag name or a      *)
(* fixed message).  A JavaScript value is a record [t, v] tagged with its  *)
(* type.  A handler runs to completion, so the synchronous part of a       *)
(* handler is one step and the continuation after its await (try / catch / *)
(* finally) is one step.                                                   *)
(***************************************************************************)
EXTENDS Integers, Sequences, FiniteSets, TLC

VARIABLES
    view,        \* the component under observation (components share no state)
    ev,          \* the last event that was handled, with its input
    \* ChatInput
    message,     \* useState("")            ChatInput.tsx:12
    disabled,    \* prop disabled           ChatInput.tsx:11
    sent,        \* calls of onSendMessage, in order
    \* HealthCheck
    hcMounted,   \* the mount effect has run
    health,      \* useState(null)          part_000:6
    hcLoading,   \* useState(false)         part_000:7
    hcError,     \* useState(null)          part_000:8
    hcInflight,  \* requests of apiService.checkHealth not yet settled
    \* AdditionalInfo
    query,       \* useState('')            AdditionalInfo.tsx:8
    aiResult,    \* useState(null)          AdditionalInfo.tsx:9
    aiLoading,   \* useState(false)         AdditionalInfo.tsx:10
    aiError,     \* useState(null)          AdditionalInfo.tsx:11
    aiInflight,  \* requests of gatherAdditionalInfo not yet settled
    \* FinalResponse
    content,     \* useState('')            part_001:8
    userQuery,   \* useState('')            part_001:9
    frResult,    \* useState(null)          part_001:10
    frLoading,   \* useState(false)         part_001:11
    frError,     \* useState(null)          part_001:12
    frInflight,  \* requests of generateFinalResponse not yet settled
    \* cleanResponse applied to one text
    raw,         \* the text handed to cleanResponse
    cleaned,     \* what cleanResponse returned
    cleanDone    \* cleanResponse has been applied to raw

chatVars == <<message, disabled, sent>>
hcVars == <<hcMounted, health, hcLoading, hcError, hcInflight>>
aiVars == <<query, aiResult, aiLoading, aiError, aiInflight>>
frVars == <<content, userQuery, frResult, frLoading, frError, frInflight>>
cleanVars == <<raw, cleaned, cleanDone>>
vars == <<view, ev, chatVars, hcVars, aiVars, frVars, cleanVars>>

----------------------------------------------------------------------------
(* Bounds *)

MaxFieldLen == 3    \* longest text typed into a form field
MaxSent == 2        \* calls of onSendMessage that are recorded
MaxInflight == 2    \* requests of one component that are in flight at once
MaxRawLen == 6      \* longest text handed to cleanResponse on its own

----------------------------------------------------------------------------
(* JavaScript values and strings *)

Undef == [t |-> "undefined", v |-> <<>>]
Null == [t |-> "null", v |-> <<>>]
Str(s) == [t |-> "string", v |-> s]
Num(n) == [t |-> "number", v |-> <<ToString(n)>>]
Obj(fields) == [t |-> "object", v |-> fields]

\* ToBoolean: undefined, null, "" and 0 are falsy
Truthy(x) ==
    CASE x.t = "string" -> x.v # <<>>
      [] x.t = "number" -> x.v # <<"0">>
      [] x.t = "object" -> TRUE
      [] OTHER -> FALSE

\* a || b
Or(a, b) == IF Truthy(a) THEN a ELSE b

\* x?.f for an optional field f of an object
Field(x, f) ==
    IF x.t = "object" /\ f \in DOMAIN x.v THEN x.v[f] ELSE Undef

IsSpace(c) == c \in {" ", "\n"}

RECURSIVE TrimStart(_)
TrimStart(s) ==
    IF s # <<>> /\ IsSpace(Head(s)) THEN TrimStart(Tail(s)) ELSE s

RECURSIVE TrimEnd(_)
TrimEnd(s) ==
    IF s # <<>> /\ IsSpace(s[Len(s)]) THEN TrimEnd(SubSeq(s, 1, Len(s) - 1)) ELSE s

\* String.prototype.trim
Trim(s) == TrimEnd(TrimStart(s))

RECURSIVE SeqsUpTo(_, _)
SeqsUpTo(S, n) ==
    IF n = 0 THEN {<<>>}
    ELSE LET shorter == SeqsUpTo(S, n - 1)
         IN shorter \cup {Append(s, c) : s \in {x \in shorter : Len(x) = n - 1}, c \in S}

FieldChars == {" ", "a"}
FieldTexts == SeqsUpTo(FieldChars, MaxFieldLen)

Components == {"ChatInput", "HealthCheck", "AdditionalInfo", "FinalResponse"}

NoEvent == [kind |-> "none", arg |-> Undef]
Event(k, a) == [kind |-> k, arg |-> a]

----------------------------------------------------------------------------
(* ChatInput *)

\* <Textarea disabled={disabled}>
ChatTextareaDisabled(m, d) == d

\* the button without "|| disabled"
ChatButtonDisabledNoProp(m, d) == Trim(m) = <<>>

\* <Button type="submit" disabled={!message.trim() || disabled}>
ChatButtonDisabled(m, d) == Trim(m) = <<>> \/ d

\* handleSubmit that hands the field over as it is: onSendMessage(message)
ChatHandleSubmitUntrimmed(m, log) ==
    IF Trim(m) # <<>>
    THEN [message |-> <<>>, sent |-> Append(log, m)]
    ELSE [message |-> m, sent |-> log]

\* handleSubmit: the field and the calls of onSendMessage after a submit
ChatHandleSubmit(m, log) ==
    IF Trim(m) # <<>>
    THEN [message |-> <<>>, sent |-> Append(log, Trim(m))]
    ELSE [message |-> m, sent |-> log]

ChatSubmitted(kind) ==
    /\ Len(sent) < MaxSent
    /\ LET after == ChatHandleSubmit(message, sent)
       IN /\ message' = after.message
          /\ sent' = after.sent
    /\ ev' = Event(kind, Str(message))
    /\ UNCHANGED <<view, disabled, hcVars, aiVars, frVars, cleanVars>>

\* onChange of the textarea
ChatChange ==
    /\ view = "ChatInput"
    /\ ~ChatTextareaDisabled(message, disabled)
    /\ \E m \in FieldTexts :
        /\ message' = m
        /\ ev' = Event("chatChange", Undef)
    /\ UNCHANGED <<view, disabled, sent, hcVars, aiVars, frVars, cleanVars>>

\* handleKeyDown: Enter without Shift submits, any other key does nothing here
ChatKeyDown ==
    /\ view = "ChatInput"
    /\ ~ChatTextareaDisabled(message, disabled)
    /\ \E key \in {"Enter", "a"}, shiftKey \in BOOLEAN :
        IF key = "Enter" /\ ~shiftKey
        THEN ChatSubmitted("chatEnter")
        ELSE /\ ev' = Event("chatKey", Undef)
             /\ UNCHANGED <<view, chatVars, hcVars, aiVars, frVars, cleanVars>>

\* a click on the submit button submits the form
ChatClick ==
    /\ view = "ChatInput"
    /\ ~ChatButtonDisabled(message, disabled)
    /\ ChatSubmitted("chatClick")

\* the parent sets the disabled prop while a response is pending
ChatSetDisabled ==
    /\ view = "ChatInput"
    /\ \E d \in BOOLEAN :
        /\ disabled' = d
        /\ ev' = Event("chatProp", Undef)
    /\ UNCHANGED <<view, message, sent, hcVars, aiVars, frVars, cleanVars>>

\* a submit event dispatched on the form itself (form.requestSubmit())
ChatFormSubmit ==
    /\ view = "ChatInput"
    /\ ChatSubmitted("chatFormSubmit")

----------------------------------------------------------------------------
(* cleanResponse (AdditionalInfo.tsx:14-25) *)

TagNames == {"search_rag", "duckduckgo_search"}

\* the i flag: the lower-case form of a token
Lower(c) ==
    CASE c = "Search_Rag" -> "search_rag"
      [] c = "DuckDuckGo_Search" -> "duckduckgo_search"
      [] OTHER -> c

CleanChars == {"<", "/", ">", "search_rag", "Search_Rag", "duckduckgo_search", "x", "\n"}

SetMin(S) == CHOOSE x \in S : \A y \in S : x <= y
SetMax(S) == CHOOSE x \in S : \A y \in S : x >= y

\* the literal pat matches s at position i, letter case ignored
MatchAt(s, i, pat) ==
    /\ i + Len(pat) - 1 <= Len(s)
    /\ \A k \in 1..Len(pat) : Lower(s[i + k - 1]) = pat[k]

\* text.replace(/<name>[\s\S]*?<\/name>/gi, ''), scanning from position i
RECURSIVE RemovePairedFrom(_, _, _)
RemovePairedFrom(s, name, i) ==
    IF i > Len(s) THEN <<>>
    ELSE LET closings == {j \in (i + 3)..Len(s) : MatchAt(s, j, <<"<", "/", name, ">">>)}
         IN IF MatchAt(s, i, <<"<", name, ">">>) /\ closings # {}
            THEN RemovePairedFrom(s, name, SetMin(closings) + 4)
            ELSE <<s[i]>> \o RemovePairedFrom(s, name, i + 1)

RemovePaired(s, name) == RemovePairedFrom(s, name, 1)

\* position of the tag name of a tag that opens at i, or 0 (<\/?(search_rag|duckduckgo_search))
TagNameAt(s, i) ==
    IF i + 1 <= Len(s) /\ s[i] = "<" /\ Lower(s[i + 1]) \in TagNames THEN i + 1
    ELSE IF i + 2 <= Len(s) /\ s[i] = "<" /\ s[i + 1] = "/" /\ Lower(s[i + 2]) \in TagNames
         THEN i + 2
         ELSE 0

\* positions of the > that can end a tag whose name is at position n ([^>]*>)
TagEnds(s, n) == {j \in (n + 1)..Len(s) : s[j] = ">"}

\* cleaned.replace(/<\/?(search_rag|duckduckgo_search)[^>]*>/gi, ''), scanning from i
RECURSIVE RemoveStandaloneFrom(_, _)
RemoveStandaloneFrom(s, i) ==
    IF i > Len(s) THEN <<>>
    ELSE LET n == TagNameAt(s, i)
         IN IF n # 0 /\ TagEnds(s, n) # {}
            THEN RemoveStandaloneFrom(s, SetMin(TagEnds(s, n)) + 1)
            ELSE <<s[i]>> \o RemoveStandaloneFrom(s, i + 1)

RemoveStandalone(s) == RemoveStandaloneFrom(s, 1)

\* end of the run of white space that starts at position i
RECURSIVE SpaceRunEnd(_, _)
SpaceRunEnd(s, i) ==
    IF i + 1 <= Len(s) /\ IsSpace(s[i + 1]) THEN SpaceRunEnd(s, i + 1) ELSE i

\* cleaned.replace(/\n\s*\n\s*\n+/g, '\n\n'), scanning from i: a run of white
\* space that starts with a newline and holds three or more newlines is
\* replaced, up to its last newline, by two newlines
RECURSIVE CollapseFrom(_, _)
CollapseFrom(s, i) ==
    IF i > Len(s) THEN <<>>
    ELSE LET newlines == {j \in i..SpaceRunEnd(s, i) : s[j] = "\n"}
         IN IF s[i] = "\n" /\ Cardinality(newlines) >= 3
            THEN <<"\n", "\n">> \o CollapseFrom(s, SetMax(newlines) + 1)
            ELSE <<s[i]>> \o CollapseFrom(s, i + 1)

CollapseBlankLines(s) == CollapseFrom(s, 1)

\* cleanResponse for a string argument
cleanResponse(text) ==
    IF text = <<>> THEN text
    ELSE Trim(CollapseBlankLines(RemoveStandalone(
             RemovePaired(RemovePaired(text, "search_rag"), "duckduckgo_search"))))

RawTexts == SeqsUpTo(CleanChars, MaxRawLen)

\* cleanResponse is applied to the text
CleanApply ==
    /\ view = "cleanResponse"
    /\ ~cleanDone
    /\ cleaned' = cleanResponse(raw)
    /\ cleanDone' = TRUE
    /\ ev' = Event("clean", Undef)
    /\ UNCHANGED <<view, raw, chatVars, hcVars, aiVars, frVars>>

----------------------------------------------------------------------------
(* What a request can settle with *)

\* error bodies of the server: { detail?, message? }
ErrBodies ==
    {Undef} \cup
    {Obj([detail |-> d, message |-> m]) :
        d \in {Undef, Str(<<>>), Str(<<"detail of the server">>)},
        m \in {Undef, Str(<<>>), Str(<<"message of the server">>)}}

StatusLines ==
    {[status |-> 500, statusText |-> <<"Internal Server Error">>],
     [status |-> 404, statusText |-> <<"Not Found">>]}

ErrResponses ==
    {Obj([data |-> b, status |-> Num(l.status), statusText |-> Str(l.statusText)]) :
        b \in ErrBodies, l \in StatusLines}

XmlHttpRequest == Obj([readyState |-> Num(4)])

\* the errors a request rejects with: response?, request?, message?
Errors ==
    {Obj([response |-> r, request |-> q, message |-> m]) :
        r \in {Undef} \cup ErrResponses,
        q \in {Undef, XmlHttpRequest},
        m \in {Undef, Str(<<>>), Str(<<"Network Error">>)}}

\* the TypeError of text.replace when info is not a string
ReplaceTypeError ==
    Obj([response |-> Undef, request |-> Undef,
         message |-> Str(<<"text.replace is not a function">>)])

HealthPayloads ==
    {Obj([status |-> Str(<<"healthy">>), message |-> Str(<<"API is running">>),
          version |-> Str(<<"1.0.0">>)]),
     Obj([status |-> Str(<<"degraded">>), message |-> Str(<<"API is starting">>),
          version |-> Str(<<"1.0.0">>)])}

\* texts the gather-information endpoint returns as info
InfoTexts ==
    {<<"x">>,
     <<"x", "<", "search_rag", ">", "x", "<", "/", "search_rag", ">">>,
     <<"<", "duckduckgo_search", ">", "x", "<", "/", "duckduckgo_search", ">">>,
     <<"<", "<", "search_rag", ">", "search_rag", ">">>,
     <<"\n", " ">>}

\* payloads of the gather-information endpoint: none, or { success, info? }
AiPayloads ==
    {Undef, Null, Obj([success |-> Str(<<"true">>)])} \cup
    {Obj([success |-> Str(<<"true">>), info |-> i]) :
        i \in {Undef, Null, Str(<<>>), Num(42)} \cup {Str(t) : t \in InfoTexts}}

\* payloads of the synthesis endpoint: none, or { success, response? }
FrPayloads ==
    {Null, Obj([success |-> Str(<<"true">>)]),
     Obj([success |-> Str(<<"true">>), response |-> Str(<<"x">>)])}

----------------------------------------------------------------------------
(* HealthCheck (part_000) *)

\* <button onClick={checkHealth} disabled={loading}>
HcButtonDisabled(l) == l

\* checkHealth up to its await: setLoading(true); setError(null)
HcStart(st) == [health |-> st.health, loading |-> TRUE, error |-> Null]

\* err.response?.data?.detail || err.message || 'Failed to check health'
HcErrorMessage(err) ==
    Or(Field(Field(Field(err, "response"), "data"), "detail"),
       Or(Field(err, "message"), Str(<<"Failed to check health">>)))

\* checkHealth after its await resolved: setHealth(data); finally setLoading(false)
HcOnResolved(data, st) == [health |-> data, loading |-> FALSE, error |-> st.error]

\* checkHealth after its await rejected: setError(...); finally setLoading(false)
HcOnRejected(err, st) ==
    [health |-> st.health, loading |-> FALSE, error |-> HcErrorMessage(err)]

hcState == [health |-> health, loading |-> hcLoading, error |-> hcError]

HcSet(st) ==
    /\ health' = st.health
    /\ hcLoading' = st.loading
    /\ hcError' = st.error

HcCheckHealth(kind) ==
    /\ hcInflight < MaxInflight
    /\ HcSet(HcStart(hcState))
    /\ hcInflight' = hcInflight + 1
    /\ hcMounted' = TRUE
    /\ ev' = Event(kind, Undef)
    /\ UNCHANGED <<view, chatVars, aiVars, frVars, cleanVars>>

\* useEffect(() => { checkHealth(); }, []): the first render and its effect
HcMount ==
    /\ view = "HealthCheck"
    /\ ~hcMounted
    /\ HcCheckHealth("hcMount")

\* a click on Refresh Status
HcRefresh ==
    /\ view = "HealthCheck"
    /\ hcMounted
    /\ ~HcButtonDisabled(hcLoading)
    /\ HcCheckHealth("hcRefresh")

\* a request of checkHealth resolves
HcResolve ==
    /\ view = "HealthCheck"
    /\ hcInflight > 0
    /\ \E data \in HealthPayloads :
        /\ HcSet(HcOnResolved(data, hcState))
        /\ ev' = Event("hcResolved", data)
    /\ hcInflight' = hcInflight - 1
    /\ UNCHANGED <<view, hcMounted, chatVars, aiVars, frVars, cleanVars>>

\* a request of checkHealth rejects
HcReject ==
    /\ view = "HealthCheck"
    /\ hcInflight > 0
    /\ \E err \in Errors :
        /\ HcSet(HcOnRejected(err, hcState))
        /\ ev' = Event("hcRejected", Undef)
    /\ hcInflight' = hcInflight - 1
    /\ UNCHANGED <<view, hcMounted, chatVars, aiVars, frVars, cleanVars>>

----------------------------------------------------------------------------
(* AdditionalInfo *)

\* <input id="query" disabled={loading}>
AiInputDisabled(l) == l

\* the button without "loading ||"
AiButtonDisabledNoLoading(q, l) == Trim(q) = <<>>

\* <button type="submit" disabled={loading || !query.trim()}>
AiButtonDisabled(q, l) == l \/ Trim(q) = <<>>

\* handleSubmit that tests the query without trimming it: if (!query)
AiHandleSubmitNoTrim(q, st) ==
    IF q = <<>>
    THEN [result |-> st.result, loading |-> st.loading,
          error |-> Str(<<"Please enter a query">>), request |-> Undef]
    ELSE [result |-> Null, loading |-> TRUE, error |-> Null,
          request |-> Obj([query |-> Str(q)])]

\* handleSubmit up to its await; request is the payload sent, if any
AiHandleSubmit(q, st) ==
    IF Trim(q) = <<>>
    THEN [result |-> st.result, loading |-> st.loading,
          error |-> Str(<<"Please enter a query">>), request |-> Undef]
    ELSE [result |-> Null, loading |-> TRUE, error |-> Null,
          request |-> Obj([query |-> Str(q)])]

\* a ?? b
Nullish(a, b) == IF a \in {Undef, Null} THEN b ELSE a

\* the message of the catch block written with ?? in place of ||
AiErrorMessageNullish(err) ==
    IF Truthy(Field(err, "response"))
    THEN LET response == Field(err, "response")
             data == Field(response, "data")
         IN Nullish(Field(data, "detail"),
               Nullish(Field(data, "message"),
                  Str(<<"Server error: ">> \o Field(response, "status").v \o <<" ">>
                      \o Field(response, "statusText").v)))
    ELSE IF Truthy(Field(err, "request"))
         THEN Str(<<"No response from server. Please check if the API server is running.">>)
         ELSE Nullish(Field(err, "message"), Str(<<"Failed to gather information">>))

\* the message of the catch block
AiErrorMessage(err) ==
    IF Truthy(Field(err, "response"))
    THEN LET response == Field(err, "response")
             data == Field(response, "data")
         IN Or(Field(data, "detail"),
               Or(Field(data, "message"),
                  Str(<<"Server error: ">> \o Field(response, "status").v \o <<" ">>
                      \o Field(response, "statusText").v)))
    ELSE IF Truthy(Field(err, "request"))
         THEN Str(<<"No response from server. Please check if the API server is running.">>)
         ELSE Or(Field(err, "message"), Str(<<"Failed to gather information">>))

\* the catch block without the finally block
AiOnRejectedNoFinally(err, st) ==
    [result |-> st.result, loading |-> st.loading, error |-> AiErrorMessage(err)]

\* catch (err) { ... setError(errorMessage) } finally { setLoading(false) }
AiOnRejected(err, st) ==
    [result |-> st.result, loading |-> FALSE, error |-> AiErrorMessage(err)]

\* the try block with the test data.info != null in place of data.info
AiOnResolvedNullTest(data, st) ==
    LET info == Field(data, "info")
    IN IF Truthy(data) /\ info \notin {Undef, Null}
       THEN IF info.t = "string"
            THEN [result |-> Obj([data.v EXCEPT !.info = Str(cleanResponse(info.v))]),
                  loading |-> FALSE, error |-> st.error]
            ELSE AiOnRejected(ReplaceTypeError, st)
       ELSE [result |-> st.result, loading |-> FALSE,
             error |-> Str(<<"Received empty response from server. Please try again.">>)]

\* the try block that stores the payload as it came: setResult(data)
AiOnResolvedUncleaned(data, st) ==
    LET info == Field(data, "info")
    IN IF Truthy(data) /\ Truthy(info)
       THEN [result |-> data, loading |-> FALSE, error |-> st.error]
       ELSE [result |-> st.result, loading |-> FALSE,
             error |-> Str(<<"Received empty response from server. Please try again.">>)]

\* the try block after the await resolved, and finally
AiOnResolved(data, st) ==
    LET info == Field(data, "info")
    IN IF Truthy(data) /\ Truthy(info)
       THEN IF info.t = "string"
            THEN [result |-> Obj([data.v EXCEPT !.info = Str(cleanResponse(info.v))]),
                  loading |-> FALSE, error |-> st.error]
            ELSE AiOnRejected(ReplaceTypeError, st)
       ELSE [result |-> st.result, loading |-> FALSE,
             error |-> Str(<<"Received empty response from server. Please try again.">>)]

aiState == [result |-> aiResult, loading |-> aiLoading, error |-> aiError]

\* {result && ( ... {result.info ? <ReactMarkdown> : <p>No information was
\* returned. Please try a different query.</p>} ... )}: the result panel
\* shows its fallback text
AiRendersFallback(result) == Truthy(result) /\ ~Truthy(Field(result, "info"))

AiSet(st) ==
    /\ aiResult' = st.result
    /\ aiLoading' = st.loading
    /\ aiError' = st.error

AiSubmitted(kind) ==
    /\ aiInflight < MaxInflight
    /\ LET after == AiHandleSubmit(query, aiState)
       IN /\ AiSet(after)
          /\ aiInflight' = IF after.request = Undef THEN aiInflight ELSE aiInflight + 1
          /\ ev' = Event(kind, after.request)
    /\ UNCHANGED <<view, query, chatVars, hcVars, frVars, cleanVars>>

\* onChange of the query input
AiChange ==
    /\ view = "AdditionalInfo"
    /\ ~AiInputDisabled(aiLoading)
    /\ \E q \in FieldTexts :
        /\ query' = q
        /\ ev' = Event("aiChange", Undef)
    /\ UNCHANGED <<view, aiResult, aiLoading, aiError, aiInflight,
                   chatVars, hcVars, frVars, cleanVars>>

\* a click on the submit button submits the form
AiClick ==
    /\ view = "AdditionalInfo"
    /\ ~AiButtonDisabled(query, aiLoading)
    /\ AiSubmitted("aiClick")

\* Enter in the query input submits the form through its submit button
AiEnter ==
    /\ view = "AdditionalInfo"
    /\ ~AiInputDisabled(aiLoading)
    /\ ~AiButtonDisabled(query, aiLoading)
    /\ AiSubmitted("aiEnter")

\* a submit event dispatched on the form itself (form.requestSubmit())
AiFormSubmit ==
    /\ view = "AdditionalInfo"
    /\ AiSubmitted("aiFormSubmit")

\* a request of gatherAdditionalInfo resolves
AiResolve ==
    /\ view = "AdditionalInfo"
    /\ aiInflight > 0
    /\ \E data \in AiPayloads :
        /\ AiSet(AiOnResolved(data, aiState))
        /\ ev' = Event("aiResolved", data)
    /\ aiInflight' = aiInflight - 1
    /\ UNCHANGED <<view, query, chatVars, hcVars, frVars, cleanVars>>

\* a request of gatherAdditionalInfo rejects
AiReject ==
    /\ view = "AdditionalInfo"
    /\ aiInflight > 0
    /\ \E err \in Errors :
        /\ AiSet(AiOnRejected(err, aiState))
        /\ ev' = Event("aiRejected", err)
    /\ aiInflight' = aiInflight - 1
    /\ UNCHANGED <<view, query, chatVars, hcVars, frVars, cleanVars>>

----------------------------------------------------------------------------
(* FinalResponse (part_001) *)

\* <textarea id="content" disabled={loading}>, <input id="userQuery" disabled={loading}>
FrInputDisabled(l) == l

\* <button type="submit" disabled={loading || !content.trim()}>
FrButtonDisabled(c, l) == l \/ Trim(c) = <<>>

\* the payload with user_query: userQuery
FrPayloadAlways(c, uq) == Obj([content |-> Str(c), user_query |-> Str(uq)])

\* { content, user_query: userQuery || undefined }; a field that is undefined
\* is left out of the request body
FrPayload(c, uq) == Obj([content |-> Str(c), user_query |-> Or(Str(uq), Undef)])

\* handleSubmit up to its await; request is the payload sent, if any
FrHandleSubmit(c, uq, st) ==
    IF Trim(c) = <<>>
    THEN [result |-> st.result, loading |-> st.loading,
          error |-> Str(<<"Please enter content to synthesize">>), request |-> Undef]
    ELSE [result |-> Null, loading |-> TRUE, error |-> Null,
          request |-> FrPayload(c, uq)]

\* err.response?.data?.detail || err.message || 'Failed to generate response'
FrErrorMessage(err) ==
    Or(Field(Field(Field(err, "response"), "data"), "detail"),
       Or(Field(err, "message"), Str(<<"Failed to generate response">>)))

\* setResult(data); finally setLoading(false)
FrOnResolved(data, st) == [result |-> data, loading |-> FALSE, error |-> st.error]

\* setError(...); finally setLoading(false)
FrOnRejected(err, st) ==
    [result |-> st.result, loading |-> FALSE, error |-> FrErrorMessage(err)]

frState == [result |-> frResult, loading |-> frLoading, error |-> frError]

FrSet(st) ==
    /\ frResult' = st.result
    /\ frLoading' = st.loading
    /\ frError' = st.error

FrSubmitted(kind) ==
    /\ frInflight < MaxInflight
    /\ LET after == FrHandleSubmit(content, userQuery, frState)
       IN /\ FrSet(after)
          /\ frInflight' = IF after.request = Undef THEN frInflight ELSE frInflight + 1
          /\ ev' = Event(kind, after.request)
    /\ UNCHANGED <<view, content, userQuery, chatVars, hcVars, aiVars, cleanVars>>

\* onChange of the content textarea
FrChangeContent ==
    /\ view = "FinalResponse"
    /\ ~FrInputDisabled(frLoading)
    /\ \E c \in FieldTexts :
        /\ content' = c
        /\ ev' = Event("frChangeContent", Undef)
    /\ UNCHANGED <<view, userQuery, frResult, frLoading, frError, frInflight,
                   chatVars, hcVars, aiVars, cleanVars>>

\* onChange of the original-query input
FrChangeUserQuery ==
    /\ view = "FinalResponse"
    /\ ~FrInputDisabled(frLoading)
    /\ \E q \in FieldTexts :
        /\ userQuery' = q
        /\ ev' = Event("frChangeUserQuery", Undef)
    /\ UNCHANGED <<view, content, frResult, frLoading, frError, frInflight,
                   chatVars, hcVars, aiVars, cleanVars>>

\* a click on the submit button submits the form
FrClick ==
    /\ view = "FinalResponse"
    /\ ~FrButtonDisabled(content, frLoading)
    /\ FrSubmitted("frClick")

\* Enter in the original-query input submits the form through its submit button
FrEnter ==
    /\ view = "FinalResponse"
    /\ ~FrInputDisabled(frLoading)
    /\ ~FrButtonDisabled(content, frLoading)
    /\ FrSubmitted("frEnter")

\* a submit event dispatched on the form itself
FrFormSubmit ==
    /\ view = "FinalResponse"
    /\ FrSubmitted("frFormSubmit")

\* a request of generateFinalResponse resolves
FrResolve ==
    /\ view = "FinalResponse"
    /\ frInflight > 0
    /\ \E data \in FrPayloads :
        /\ FrSet(FrOnResolved(data, frState))
        /\ ev' = Event("frResolved", data)
    /\ frInflight' = frInflight - 1
    /\ UNCHANGED <<view, content, userQuery, chatVars, hcVars, aiVars, cleanVars>>

\* a request of generateFinalResponse rejects
FrReject ==
    /\ view = "FinalResponse"
    /\ frInflight > 0
    /\ \E err \in Errors :
        /\ FrSet(FrOnRejected(err, frState))
        /\ ev' = Event("frRejected", Undef)
    /\ frInflight' = frInflight - 1
    /\ UNCHANGED <<view, content, userQuery, chatVars, hcVars, aiVars, cleanVars>>

----------------------------------------------------------------------------

Init ==
    /\ view \in Components
    /\ ev = NoEvent
    /\ message = <<>> /\ disabled = FALSE /\ sent = <<>>
    /\ hcMounted = FALSE /\ health = Null /\ hcLoading = FALSE
    /\ hcError = Null /\ hcInflight = 0
    /\ query = <<>> /\ aiResult = Null /\ aiLoading = FALSE
    /\ aiError = Null /\ aiInflight = 0
    /\ content = <<>> /\ userQuery = <<>> /\ frResult = Null
    /\ frLoading = FALSE /\ frError = Null /\ frInflight = 0
    /\ raw = <<>> /\ cleaned = <<>> /\ cleanDone = FALSE

\* what the rendered controls let a user do, and what the requests do
Next ==
    \/ ChatChange
    \/ ChatKeyDown
    \/ ChatClick
    \/ ChatSetDisabled
    \/ HcMount
    \/ HcRefresh
    \/ HcResolve
    \/ HcReject
    \/ AiChange
    \/ AiClick
    \/ AiEnter
    \/ AiResolve
    \/ AiReject
    \/ FrChangeContent
    \/ FrChangeUserQuery
    \/ FrClick
    \/ FrEnter
    \/ FrResolve
    \/ FrReject

Spec == Init /\ [][Next]_vars

\* the same, and submit events dispatched on the forms themselves, which
\* reach handleSubmit without passing a rendered control
NextScripted ==
    \/ Next
    \/ ChatFormSubmit
    \/ AiFormSubmit
    \/ FrFormSubmit

SpecScripted == Init /\ [][NextScripted]_vars

\* cleanResponse on its own, applied to every text up to MaxRawLen tokens
InitClean ==
    /\ view = "cleanResponse"
    /\ ev = NoEvent
    /\ message = <<>> /\ disabled = FALSE /\ sent = <<>>
    /\ hcMounted = FALSE /\ health = Null /\ hcLoading = FALSE
    /\ hcError = Null /\ hcInflight = 0
    /\ query = <<>> /\ aiResult = Null /\ aiLoading = FALSE
    /\ aiError = Null /\ aiInflight = 0
    /\ content = <<>> /\ userQuery = <<>> /\ frResult = Null
    /\ frLoading = FALSE /\ frError = Null /\ frInflight = 0
    /\ raw \in RawTexts /\ cleaned = <<>> /\ cleanDone = FALSE

NextClean == CleanApply

SpecClean == InitClean /\ [][NextClean]_vars

----------------------------------------------------------------------------
(* Properties *)

ChatSubmitKinds == {"chatEnter", "chatClick", "chatFormSubmit"}
AiSubmitKinds == {"aiClick", "aiEnter", "aiFormSubmit"}
FrSubmitKinds == {"frClick", "frEnter", "frFormSubmit"}

\* the text is empty or all white space
AllBlank(s) == \A k \in 1..Len(s) : IsSpace(s[k])

\* t is m without its leading and trailing white space
IsTrimOf(t, m) ==
    /\ \E i, j \in 0..Len(m) :
        /\ i + j <= Len(m)
        /\ t = SubSeq(m, i + 1, Len(m) - j)
        /\ \A k \in 1..i : IsSpace(m[k])
        /\ \A k \in (Len(m) - j + 1)..Len(m) : IsSpace(m[k])
    /\ t # <<>> => ~IsSpace(t[1]) /\ ~IsSpace(t[Len(t)])

\* at most one of the flags holds
AtMostOne(a, b, c) == ~(a /\ b) /\ ~(a /\ c) /\ ~(b /\ c)

EmptyResponseMessage == Str(<<"Received empty response from server. Please try again.">>)

\* C1: in HealthCheck, AdditionalInfo and FinalResponse, once a request has
\* settled (resolved with a result, resolved with an empty response, or
\* rejected), the loading flag of the component is false.
C1_LoadingClearedWhenSettled ==
    /\ ev.kind \in {"hcResolved", "hcRejected"} => ~hcLoading
    /\ ev.kind \in {"aiResolved", "aiRejected"} => ~aiLoading
    /\ ev.kind \in {"frResolved", "frRejected"} => ~frLoading

C1_Witness ==
    /\ ev.kind = "aiRejected"
    /\ Truthy(aiError)
    /\ ~aiLoading

\* the payload carries no info, or an info that is absent, null, undefined or ""
InfoFalsy(data) ==
    \/ data \in {Undef, Null}
    \/ "info" \notin DOMAIN data.v
    \/ data.v.info \in {Undef, Null, Str(<<>>)}

\* C2: AdditionalInfo: when the request resolves with no payload or with a
\* payload whose info is falsy, the error is the empty-response message and no
\* result is stored; a result is stored only for a payload with a truthy info.
C2_EmptyResponseIsAnError ==
    ev.kind = "aiResolved" =>
        /\ InfoFalsy(ev.arg) => aiError = EmptyResponseMessage /\ aiResult = Null
        /\ aiResult # Null => ~InfoFalsy(ev.arg)

C2_Witness ==
    /\ ev.kind = "aiResolved"
    /\ ev.arg.t = "object"
    /\ "info" \in DOMAIN ev.arg.v
    /\ ev.arg.v.info = Str(<<>>)
    /\ aiError = EmptyResponseMessage
    /\ aiResult = Null

\* the message C3 names for an error, where present(x) says when a field of
\* the error body counts as present
C3_Message(err, present(_)) ==
    LET e == err.v
    IN IF e.response # Undef
       THEN LET body == e.response.v.data
                detail == IF body = Undef THEN Undef ELSE body.v.detail
                msg == IF body = Undef THEN Undef ELSE body.v.message
            IN IF present(detail) THEN detail
               ELSE IF present(msg) THEN msg
               ELSE Str(<<"Server error: ">> \o e.response.v.status.v \o <<" ">>
                        \o e.response.v.statusText.v)
       ELSE IF e.request # Undef
            THEN Str(<<"No response from server. Please check if the API server is running.">>)
            ELSE IF e.message \in {Undef, Str(<<>>)}
                 THEN Str(<<"Failed to gather information">>)
                 ELSE e.message

IsPresent(x) == x # Undef
IsPresentAndNonEmpty(x) == x # Undef /\ x # Str(<<>>)

\* C3 as stated: AdditionalInfo: when the request rejects, the error is the
\* body's detail if present, else the body's message if present, else the
\* status line; without a response but with a request, the no-response
\* message; otherwise the error's own message or the default; the error is
\* non-empty and no result is stored.
C3_Original ==
    ev.kind = "aiRejected" =>
        /\ aiError = C3_Message(ev.arg, IsPresent)
        /\ aiError.t = "string" /\ aiError.v # <<>>
        /\ aiResult = Null

\* C3 as amended: the same, where detail and message are used only when they
\* are present and non-empty (an empty detail or message is skipped).
C3_ErrorMessageFallback ==
    ev.kind = "aiRejected" =>
        /\ aiError = C3_Message(ev.arg, IsPresentAndNonEmpty)
        /\ aiError.t = "string" /\ aiError.v # <<>>
        /\ aiResult = Null

C3_Witness ==
    /\ ev.kind = "aiRejected"
    /\ ev.arg.v.response # Undef
    /\ ev.arg.v.response.v.data # Undef
    /\ ev.arg.v.response.v.data.v.detail = Str(<<>>)
    /\ aiError = Str(<<"message of the server">>)

\* C4: ChatInput: a submit of a field m that is not all white space calls
\* onSendMessage exactly once, with m trimmed, and empties the field; a submit
\* of an empty or all-white-space m calls nothing and leaves the field as it is.
C4_SubmitSendsTrimmed ==
    [][ev'.kind \in ChatSubmitKinds =>
        IF ~AllBlank(message)
        THEN /\ Len(sent') = Len(sent) + 1
             /\ SubSeq(sent', 1, Len(sent)) = sent
             /\ IsTrimOf(sent'[Len(sent')], message)
             /\ message' = <<>>
        ELSE /\ sent' = sent
             /\ message' = message]_vars

C4_Witness ==
    /\ ev.kind = "chatEnter"
    /\ ev.arg = Str(<<" ", "a", " ">>)
    /\ sent # <<>>
    /\ sent[Len(sent)] = <<"a">>
    /\ message = <<>>

\* C5: ChatInput: while the disabled prop is true, nothing the user does calls
\* onSendMessage or changes the field, also when the field holds text.
C5_DisabledBlocksSubmit ==
    [][disabled => sent' = sent /\ message' = message]_vars

C5_Witness ==
    /\ disabled
    /\ ~AllBlank(message)
    /\ ev.kind = "chatProp"

\* the text holds an opening or closing search_rag or duckduckgo_search tag,
\* in any letter case, with or without attributes
HasToolTag(s) ==
    \E i, j \in 1..Len(s) :
        /\ s[i] = "<"
        /\ \/ i + 1 < j /\ Lower(s[i + 1]) \in TagNames
           \/ i + 2 < j /\ s[i + 1] = "/" /\ Lower(s[i + 2]) \in TagNames
        /\ s[j] = ">"

\* C6: cleanResponse: the text it returns holds no opening or closing
\* search_rag or duckduckgo_search tag.
C6_NoToolTagLeft == cleanDone => ~HasToolTag(cleaned)

\* C7: a submit of AdditionalInfo with a query that is empty after trimming,
\* or of FinalResponse with a content that is empty after trimming, sets the
\* error message of the form, issues no request and does not set loading.
C7_BlankSubmitMakesNoRequest ==
    [][/\ (ev'.kind \in AiSubmitKinds /\ AllBlank(query)) =>
            /\ aiError' = Str(<<"Please enter a query">>)
            /\ aiInflight' = aiInflight
            /\ aiLoading' = aiLoading /\ ~aiLoading'
       /\ (ev'.kind \in FrSubmitKinds /\ AllBlank(content)) =>
            /\ frError' = Str(<<"Please enter content to synthesize">>)
            /\ frInflight' = frInflight
            /\ frLoading' = frLoading /\ ~frLoading']_vars

C7_Witness ==
    /\ ev.kind = "aiFormSubmit"
    /\ query = <<" ">>
    /\ aiError = Str(<<"Please enter a query">>)
    /\ aiInflight = 0
    /\ ~aiLoading

\* C8: FinalResponse: a submit that passes validation sends content as it is;
\* user_query is left out (undefined) when the original-query field is empty
\* and is the text of the field as it is otherwise, white space included; it
\* is never the empty string.
C8_UserQueryOmittedWhenBlank ==
    [][(ev'.kind \in FrSubmitKinds /\ ~AllBlank(content)) =>
        /\ frInflight' = frInflight + 1
        /\ ev'.arg.t = "object"
        /\ ev'.arg.v.content = Str(content)
        /\ ev'.arg.v.user_query = (IF userQuery = <<>> THEN Undef ELSE Str(userQuery))
        /\ ev'.arg.v.user_query # Str(<<>>)]_vars

C8_Witness ==
    /\ ev.kind = "frClick"
    /\ userQuery = <<>>
    /\ ev.arg.t = "object"
    /\ ev.arg.v.user_query = Undef
    /\ frInflight = 1

\* C9: in HealthCheck, AdditionalInfo and FinalResponse at most one of these
\* holds in every state: loading is true, a result is present, an error
\* message is present.
C9_StatusMutuallyExclusive ==
    /\ AtMostOne(hcLoading, Truthy(health), Truthy(hcError))
    /\ AtMostOne(aiLoading, Truthy(aiResult), Truthy(aiError))
    /\ AtMostOne(frLoading, Truthy(frResult), Truthy(frError))

\* C10: at most one request of a component is in flight at any time, and the
\* component is loading exactly while it is.
C10_OneRequestInFlight ==
    /\ hcInflight <= 1 /\ (hcLoading <=> hcInflight = 1)
    /\ aiInflight <= 1 /\ (aiLoading <=> aiInflight = 1)
    /\ frInflight <= 1 /\ (frLoading <=> frInflight = 1)

C10_Witness ==
    /\ aiInflight = 1
    /\ aiLoading
    /\ ~AllBlank(query)
    /\ AiButtonDisabled(query, aiLoading)

\* C11 as stated: AdditionalInfo: whenever a result is stored, its info, as
\* stored after sanitization, is a non-empty text, so the result panel never
\* shows its "No information was returned" fallback.
C11_Original ==
    aiResult # Null =>
        /\ aiResult.v.info.t = "string" /\ aiResult.v.info.v # <<>>
        /\ ~AiRendersFallback(aiResult)

\* C11 as amended: a result is stored only for an info that was a non-empty
\* text before sanitization; the stored info is that text sanitized, it has no
\* white space at its ends, and it may be empty, in which case the result
\* panel shows its fallback; a payload whose info is falsy before sanitization
\* stores no result and gives the empty-response error.
C11_StoredInfoIsSanitizedText ==
    /\ aiResult # Null =>
        /\ aiResult.v.info.t = "string"
        /\ aiResult.v.info.v # <<>> =>
            /\ ~IsSpace(aiResult.v.info.v[1])
            /\ ~IsSpace(aiResult.v.info.v[Len(aiResult.v.info.v)])
        /\ AiRendersFallback(aiResult) <=> aiResult.v.info.v = <<>>
    /\ (ev.kind = "aiResolved" /\ aiResult # Null) =>
        /\ ~InfoFalsy(ev.arg)
        /\ ev.arg.v.info.t = "string" /\ ev.arg.v.info.v # <<>>
        /\ aiResult.v.info = Str(cleanResponse(ev.arg.v.info.v))
    /\ (ev.kind = "aiResolved" /\ InfoFalsy(ev.arg)) =>
        aiResult = Null /\ aiError = EmptyResponseMessage

C11_Witness ==
    /\ ev.kind = "aiResolved"
    /\ ~InfoFalsy(ev.arg)
    /\ ev.arg.v.info.v # <<>>
    /\ aiResult # Null
    /\ aiResult.v.info = Str(<<>>)
    /\ AiRendersFallback(aiResult)

====
